---- MODULE Spec2Model ----
(***************************************************************************)
(* A model of the flat-file record stores of glitrix/csc299-project:       *)
(*   - storage_markdown.py : one Markdown file per task in a vault          *)
(*   - studynavigator.py   : JsonStore (atomic JSON collection file) and    *)
(*                           the note/task commands built on it             *)
(*   - tasks.py            : a plain JSON list rewritten in place           *)
(* The three are separate programs with separate files; `program` says     *)
(* which one a behaviour runs.  Text is modelled as sequences of            *)
(* one-character strings so that formatting and parsing are computed.       *)
(***************************************************************************)
EXTENDS Integers, Sequences, FiniteSets, TLC

VARIABLES
    program,     \* which program of the repository this behaviour runs
    last,        \* the last operation: its name, arguments and outcome
    vault,       \* storage_markdown: VAULT_DIR, file name -> lines of text
    seenIds,     \* storage_markdown: every id a file of the vault has carried so far
    input,       \* the arguments drawn at the start, where a function is applied to them
    fs,          \* the JSON programs: file name -> file (its records, whether it is whole)
    pc,          \* the JSON programs: where the running process stands
    pending,     \* the JSON programs: the collection being written by _save / save_tasks
    now          \* studynavigator: datetime.utcnow(), in whole seconds

mdVars == <<vault, seenIds>>
jsonVars == <<fs, pc, pending>>
vars == <<program, last, vault, seenIds, input, fs, pc, pending, now>>

(***************************************************************************)
(* Bounds of the model.                                                    *)
(***************************************************************************)
MaxFiles == 3      \* files the vault may hold
MaxId == 3         \* largest id _next_id may hand out
MaxItems == 2      \* records a JSON collection may hold
MaxTime == 2       \* seconds the clock may advance
MaxSort == 2       \* tasks in a collection handed to task_list
MaxBody == 4       \* characters a note body may grow to
MaxSearch == 2     \* records in a collection handed to a search

(***************************************************************************)
(* Python values and text helpers.                                         *)
(***************************************************************************)
None == <<"N", "o", "n", "e", "!">>      \* Python's None where text is expected
NoneId == -1                             \* Python's None where an int is expected

Range(s) == {s[i] : i \in 1..Len(s)}

Digits == <<"0", "1", "2", "3", "4", "5", "6", "7", "8", "9">>

IsDigit(c) == c \in Range(Digits)

DigitValue == [c \in Range(Digits) |-> CHOOSE d \in 0..9 : Digits[d + 1] = c]

DigitVal(c) == DigitValue[c]

\* str(n) for n >= 0
RECURSIVE ToStr(_)
ToStr(n) == IF n < 10 THEN <<Digits[n + 1]>>
            ELSE ToStr(n \div 10) \o <<Digits[(n % 10) + 1]>>

\* the value of a run of decimal digits
RECURSIVE DigitsVal(_)
DigitsVal(s) == IF s = <<>> THEN 0
                ELSE DigitsVal(SubSeq(s, 1, Len(s) - 1)) * 10 + DigitVal(s[Len(s)])

\* the characters of the model, in code-point order
CharOrder == <<" ", "\"", "#", "-", ".", "0", "1", "2", "3", "4", "5", "6",
               "7", "8", "9", ":", "A", "B", "E", "N", "R", "T", "U", "Z", "\\", "_", "a", "b",
               "c", "d", "e", "f", "i", "k", "l", "m", "n", "o", "p", "r", "s",
               "t", "u", "x", "z", "{", "}">>

CodeOf == [c \in Range(CharOrder) |-> CHOOSE i \in 1..Len(CharOrder) : CharOrder[i] = c]

\* ord(c), up to the order
Code(c) == CodeOf[c]

\* a < b for str
RECURSIVE StrLess(_, _)
StrLess(a, b) ==
    IF b = <<>> THEN FALSE
    ELSE IF a = <<>> THEN TRUE
    ELSE IF Head(a) = Head(b) THEN StrLess(Tail(a), Tail(b))
    ELSE Code(Head(a)) < Code(Head(b))

\* str.lower() on one character
LowerChar(c) ==
    CASE c = "A" -> "a"
      [] c = "B" -> "b"
      [] c = "E" -> "e"
      [] c = "N" -> "n"
      [] c = "R" -> "r"
      [] c = "T" -> "t"
      [] c = "U" -> "u"
      [] c = "Z" -> "z"
      [] OTHER -> c

Lower(s) == [i \in 1..Len(s) |-> LowerChar(s[i])]

RECURSIVE LStrip(_, _)
LStrip(s, cs) == IF s # <<>> /\ Head(s) \in cs THEN LStrip(Tail(s), cs) ELSE s

RECURSIVE RStrip(_, _)
RStrip(s, cs) == IF s # <<>> /\ s[Len(s)] \in cs
                 THEN RStrip(SubSeq(s, 1, Len(s) - 1), cs) ELSE s

\* str.strip(cs)
Strip(s, cs) == RStrip(LStrip(s, cs), cs)

Whitespace == {" ", "\n"}

StartsWith(s, p) == Len(s) >= Len(p) /\ SubSeq(s, 1, Len(p)) = p

EndsWith(s, p) == Len(s) >= Len(p) /\ SubSeq(s, Len(s) - Len(p) + 1, Len(s)) = p

\* p in s
Contains(s, p) == \E i \in 1..(Len(s) - Len(p) + 1) : SubSeq(s, i, i + Len(p) - 1) = p

\* position of the first c in s (c occurs in s)
IndexOf(s, c) == CHOOSE i \in 1..Len(s) : s[i] = c /\ \A j \in 1..(i - 1) : s[j] # c

\* str.replace('"', '\\"')
RECURSIVE EscapeQuotes(_)
EscapeQuotes(s) ==
    IF s = <<>> THEN <<>>
    ELSE (IF Head(s) = "\"" THEN <<"\\", "\"">> ELSE <<Head(s)>>) \o EscapeQuotes(Tail(s))

\* "\n".join(lines).splitlines(), for lines that hold no line break
SplitLines(lines) ==
    IF lines # <<>> /\ lines[Len(lines)] = <<>>
    THEN SubSeq(lines, 1, Len(lines) - 1) ELSE lines

Max(S) == CHOOSE m \in S : \A x \in S : x <= m

(***************************************************************************)
(* storage_markdown.py                                                     *)
(***************************************************************************)
Dashes == <<"-", "-", "-">>
KeyId == <<"i", "d">>
KeyTitle == <<"t", "i", "t", "l", "e">>
KeyDescription == <<"d", "e", "s", "c", "r", "i", "p", "t", "i", "o", "n">>
KeyCompleted == <<"c", "o", "m", "p", "l", "e", "t", "e", "d">>
KeyCreatedAt == <<"c", "r", "e", "a", "t", "e", "d", "_", "a", "t">>
StrTrue == <<"t", "r", "u", "e">>
StrFalse == <<"f", "a", "l", "s", "e">>
StrTask == <<"t", "a", "s", "k">>
ExtMd == <<".", "m", "d">>

IsSlugChar(c) == IsDigit(c) \/ c \in {"a", "b", "c", "d", "e", "f", "i", "k", "l", "m",
                                      "n", "o", "p", "r", "s", "t", "u", "x", "z"}

\* re.sub(r'[^a-z0-9]+', '-', s): every run of other characters becomes one '-'
RECURSIVE SubRuns(_, _)
SubRuns(s, inRun) ==
    IF s = <<>> THEN <<>>
    ELSE IF IsSlugChar(Head(s)) THEN <<Head(s)>> \o SubRuns(Tail(s), FALSE)
    ELSE (IF inRun THEN <<>> ELSE <<"-">>) \o SubRuns(Tail(s), TRUE)

_slugify(s) ==
    LET t == Strip(SubRuns(Lower(s), FALSE), {"-"})
    IN  IF t = <<>> THEN StrTask ELSE t

\* re.match(r'^(\d+)-', name): the digits matched, or None
LeadingDigits(name) ==
    LET n == IF \E i \in 1..Len(name) : ~IsDigit(name[i])
             THEN (CHOOSE i \in 1..Len(name) :
                       ~IsDigit(name[i]) /\ \A j \in 1..(i - 1) : IsDigit(name[j])) - 1
             ELSE Len(name)
    IN  IF n >= 1 /\ n < Len(name) /\ name[n + 1] = "-" THEN SubSeq(name, 1, n) ELSE None

\* the ids that the file names of a directory carry
FileIds(dir) ==
    {DigitsVal(LeadingDigits(name)) : name \in {x \in DOMAIN dir : LeadingDigits(x) # None}}

\* a variant of _next_id that counts the files instead of taking the largest id
_next_id_count(dir) == Cardinality(DOMAIN dir) + 1

_next_id(dir) == Max(FileIds(dir) \cup {0}) + 1

FileName(tid, title) == ToStr(tid) \o <<"-">> \o _slugify(title) \o ExtMd

\* the list front + body that save_task joins with "\n" and writes
FileLines(tid, title, description, completed, created_at) ==
    <<Dashes,
      KeyId \o <<":", " ">> \o ToStr(tid),
      KeyTitle \o <<":", " ", "\"">> \o EscapeQuotes(title) \o <<"\"">>,
      KeyDescription \o <<":", " ", "\"">> \o EscapeQuotes(description) \o <<"\"">>,
      KeyCompleted \o <<":", " ">> \o (IF completed THEN StrTrue ELSE StrFalse),
      KeyCreatedAt \o <<":", " ", "\"">> \o created_at \o <<"\"">>,
      Dashes,
      <<>>,
      <<"#", " ">> \o title,
      <<>> >>
    \o (IF description # <<>> THEN <<description, <<>> >> ELSE <<>>)

\* the frontmatter loop of list_tasks: meta after reading lines i..
RECURSIVE MetaFrom(_, _, _)
MetaFrom(lines, i, meta) ==
    IF i > Len(lines) \/ Strip(lines[i], Whitespace) = Dashes THEN meta
    ELSE LET line == Strip(lines[i], Whitespace)
         IN  IF ":" \in Range(line)
             THEN LET p == IndexOf(line, ":")
                      k == Strip(SubSeq(line, 1, p - 1), Whitespace)
                      v == Strip(Strip(SubSeq(line, p + 1, Len(line)), Whitespace), {"\""})
                  IN  MetaFrom(lines, i + 1,
                               [x \in (DOMAIN meta) \cup {k} |-> IF x = k THEN v ELSE meta[x]])
             ELSE MetaFrom(lines, i + 1, meta)

ParseMeta(content) ==
    LET lines == SplitLines(content)
    IN  IF lines # <<>> /\ Strip(lines[1], Whitespace) = Dashes
        THEN MetaFrom(lines, 2, <<>>)
        ELSE <<>>

MetaGet(meta, k, default) == IF k \in DOMAIN meta THEN meta[k] ELSE default

\* int(text) succeeds
IsIntText(s) == s # <<>> /\ \A i \in 1..Len(s) : IsDigit(s[i])

\* whether int(meta.get("id", 0)) raises ValueError
IdRaises(content) ==
    LET meta == ParseMeta(content)
    IN  KeyId \in DOMAIN meta /\ ~IsIntText(meta[KeyId])

\* the dictionary list_tasks appends for one file (when its id parses)
DecodeFile(name, content) ==
    LET meta == ParseMeta(content)
    IN  [id |-> IF KeyId \in DOMAIN meta THEN DigitsVal(meta[KeyId]) ELSE 0,
         title |-> MetaGet(meta, KeyTitle, <<>>),
         description |-> MetaGet(meta, KeyDescription, <<>>),
         completed |-> Lower(MetaGet(meta, KeyCompleted, StrFalse)) = StrTrue,
         created_at |-> MetaGet(meta, KeyCreatedAt, <<>>),
         file |-> name]

\* sorted(names)
RECURSIVE SortedNames(_)
SortedNames(S) ==
    IF S = {} THEN <<>>
    ELSE LET m == CHOOSE x \in S : \A y \in S \ {x} : StrLess(x, y)
         IN  <<m>> \o SortedNames(S \ {m})

\* what list_tasks() returns, or the exception that escapes it
ListTasksResult(dir) ==
    LET names == SortedNames({n \in DOMAIN dir : EndsWith(n, ExtMd)})
    IN  IF \E i \in 1..Len(names) : IdRaises(dir[names[i]])
        THEN [raised |-> "ValueError", tasks |-> <<>>]
        ELSE [raised |-> "", tasks |-> [i \in 1..Len(names) |-> DecodeFile(names[i], dir[names[i]])]]

\* the loop of mark_complete over the lines of the file: out from line i on
RECURSIVE MarkLines(_, _, _)
MarkLines(lines, i, in_front) ==
    IF i > Len(lines) THEN <<>>
    ELSE LET line == lines[i]
             s == Strip(line, Whitespace)
         IN  IF i = 1 /\ s = Dashes THEN <<line>> \o MarkLines(lines, i + 1, TRUE)
             ELSE IF in_front /\ StartsWith(s, KeyCompleted \o <<":">>)
                  THEN <<KeyCompleted \o <<":", " ">> \o StrTrue>> \o MarkLines(lines, i + 1, in_front)
             ELSE IF in_front /\ s = Dashes THEN <<line>> \o MarkLines(lines, i + 1, FALSE)
             ELSE <<line>> \o MarkLines(lines, i + 1, in_front)

\* a variant that accepts every name starting with the digits of task_id
MatchingDigits(dir, task_id) == {n \in DOMAIN dir : StartsWith(n, ToStr(task_id))}

\* the names mark_complete and delete_task accept for task_id
Matching(dir, task_id) == {n \in DOMAIN dir : StartsWith(n, ToStr(task_id) \o <<"-">>)}

WriteFile(dir, name, content) ==
    [n \in (DOMAIN dir) \cup {name} |-> IF n = name THEN content ELSE dir[n]]

RemoveFile(dir, name) == [n \in (DOMAIN dir) \ {name} |-> dir[n]]

\* inputs
Titles == { <<"a">>, <<"B", ":">> }
RichTitles == { <<"a">>, <<"a", ":", "B">>, <<"a", "\"", "b">>, <<"\"", "a", "\"">>, <<" ", "a">> }
RichDescriptions == { <<>>, <<"B">>, <<"\"">> }
ExplicitIds == {0, 1, 10}
TaskIds == {1, 2, 3, 10}
NowText == <<"0", "9", ":", "0", "0">>       \* datetime.now().strftime(...)
GivenText == <<"0", "8", ":", "3", "0">>     \* a created_at passed by the caller

\* save_task(title, description, task_id, completed, created_at) on the vault
save_task(title, description, task_id, completed, created_at) ==
    LET given == task_id # NoneId /\ task_id # 0          \* `task_id if task_id else`
        tid == IF given THEN task_id ELSE _next_id(vault)
        name == FileName(tid, title)
        created == IF created_at = None THEN NowText ELSE created_at
    IN  /\ given \/ tid <= MaxId
        /\ name \in DOMAIN vault \/ Cardinality(DOMAIN vault) < MaxFiles
        /\ vault' = WriteFile(vault, name, FileLines(tid, title, description, completed, created))
        /\ seenIds' = seenIds \cup {tid}
        /\ last' = [op |-> "save_task", auto |-> ~given, ret |-> tid, file |-> name,
                    rec |-> [id |-> tid, title |-> title, description |-> description,
                             completed |-> completed, created_at |-> created, file |-> name]]
        /\ UNCHANGED <<program, now, input, jsonVars>>

\* a creation: save_task(title), the id generated
SaveTask ==
    /\ program = "md"
    /\ \E title \in Titles : save_task(title, <<>>, NoneId, FALSE, None)

\* migrate(): save_task with the id the JSON record carries
MigrateTask ==
    /\ program = "md"
    /\ \E title \in Titles, task_id \in ExplicitIds :
           save_task(title, <<>>, task_id, FALSE, None)

\* save_task on the arguments drawn at the start
SaveInput ==
    /\ program = "codec"
    /\ last.op = "none"
    /\ save_task(input.title, input.description, input.task_id, input.completed, input.created_at)

list_tasks ==
    /\ program \in {"md", "codec", "mdlist"}
    /\ last' = [op |-> "list_tasks", res |-> ListTasksResult(vault)]
    /\ UNCHANGED <<program, now, vault, seenIds, input, jsonVars>>

mark_complete(task_id) ==
    /\ IF Matching(vault, task_id) = {}
       THEN /\ last' = [op |-> "mark_complete", task_id |-> task_id, ret |-> FALSE]
            /\ UNCHANGED vault
       ELSE \E name \in Matching(vault, task_id) :       \* the first in os.listdir's order
            /\ vault' = WriteFile(vault, name, MarkLines(SplitLines(vault[name]), 1, FALSE))
            /\ last' = [op |-> "mark_complete", task_id |-> task_id, ret |-> TRUE]
    /\ UNCHANGED <<program, now, seenIds, input, jsonVars>>

delete_task(task_id) ==
    /\ IF Matching(vault, task_id) = {}
       THEN /\ last' = [op |-> "delete_task", task_id |-> task_id, ret |-> FALSE]
            /\ UNCHANGED vault
       ELSE \E name \in Matching(vault, task_id) :       \* the first in os.listdir's order
            /\ vault' = RemoveFile(vault, name)
            /\ last' = [op |-> "delete_task", task_id |-> task_id, ret |-> TRUE]
    /\ UNCHANGED <<program, now, seenIds, input, jsonVars>>

MarkComplete == program = "md" /\ \E task_id \in TaskIds : mark_complete(task_id)

DeleteTask == program = "md" /\ \E task_id \in TaskIds : delete_task(task_id)

NoOp == [op |-> "none"]

\* the JSON programs' variables, in a behaviour of another program
NoJson == fs = <<>> /\ pc = "none" /\ pending = <<>> /\ now = 0

\* the Markdown variables, in a behaviour of another program
NoMd == vault = <<>> /\ seenIds = {}

InitMd ==
    /\ program = "md"
    /\ last = NoOp
    /\ vault = <<>>
    /\ seenIds = {}
    /\ input = NoOp
    /\ NoJson

NextMd == SaveTask \/ MigrateTask \/ list_tasks \/ MarkComplete \/ DeleteTask

SpecMd == InitMd /\ [][NextMd]_vars

(***************************************************************************)
(* The codec applied to one record: save_task on drawn arguments, then     *)
(* list_tasks.                                                             *)
(***************************************************************************)
CodecInputs ==
    [title : RichTitles, description : RichDescriptions, task_id : {NoneId, 2},
     completed : BOOLEAN, created_at : {None, GivenText}]

InitCodec ==
    /\ program = "codec"
    /\ last = NoOp
    /\ vault = <<>>
    /\ seenIds = {}
    /\ input \in CodecInputs
    /\ NoJson

NextCodec == SaveInput \/ list_tasks

SpecCodec == InitCodec /\ [][NextCodec]_vars

(***************************************************************************)
(* list_tasks on a vault whose files were written or edited by hand (the   *)
(* vault is an Obsidian vault): files of any content.                      *)
(***************************************************************************)
NoHeaderLines ==
    << <<"#", " ", "a">>,
       <<>>,
       <<"i", "d", ":", " ", "1">> >>

UnclosedLines ==
    << <<"-", "-", "-">>,
       <<"i", "d", ":", " ", "1">>,
       <<"t", "i", "t", "l", "e", ":", " ", "\"", "a", "\"">>,
       <<>>,
       <<"#", " ", "a", ":", " ", "b">> >>

UnknownKeyLines ==
    << <<"-", "-", "-">>,
       <<"i", "d", ":", " ", "2">>,
       <<"z", "z", "z", ":", " ", "a">>,
       <<"-", "-", "-">> >>

BadIdLines ==
    << <<"-", "-", "-">>,
       <<"i", "d", ":", " ", "x">>,
       <<"t", "i", "t", "l", "e", ":", " ", "\"", "a", "\"">>,
       <<"-", "-", "-">> >>

BadCompletedLines ==
    << <<"-", "-", "-">>,
       <<"i", "d", ":", " ", "2">>,
       <<"c", "o", "m", "p", "l", "e", "t", "e", "d", ":", " ", "x">>,
       <<"-", "-", "-">> >>

UpperTrueLines ==
    << <<"-", "-", "-">>,
       <<"i", "d", ":", " ", "2">>,
       <<"c", "o", "m", "p", "l", "e", "t", "e", "d", ":", " ", "T", "R", "U", "E">>,
       <<"-", "-", "-">>,
       <<>> >>

WellFormedLines == FileLines(1, <<"a">>, <<>>, FALSE, NowText)

AnyContents == {NoHeaderLines, UnclosedLines, UnknownKeyLines, BadIdLines,
                BadCompletedLines, UpperTrueLines, WellFormedLines, <<>>}

NameX == <<"x", ".", "m", "d">>
NameOne == <<"1", "-", "a", ".", "m", "d">>

AnyVaults ==
    {<<>>}
    \cup {WriteFile(<<>>, n, c) : n \in {NameX, NameOne}, c \in AnyContents}
    \cup {WriteFile(WriteFile(<<>>, NameX, c), NameOne, d) : c \in AnyContents, d \in AnyContents}

InitMdList ==
    /\ program = "mdlist"
    /\ last = NoOp
    /\ vault \in AnyVaults
    /\ seenIds = FileIds(vault)
    /\ input = NoOp
    /\ NoJson

NextMdList == list_tasks

SpecMdList == InitMdList /\ [][NextMdList]_vars


(***************************************************************************)
(* JSON files.  A file holds the records json.dump has written so far and  *)
(* whether the document is whole; json.load parses only a whole document.  *)
(***************************************************************************)
Absent == [exists |-> FALSE, items |-> <<>>, complete |-> FALSE]

\* open(path, "w"): the file exists and is empty
Truncated == [exists |-> TRUE, items |-> <<>>, complete |-> FALSE]

\* the file after json.dump(items) and close
Document(items) == [exists |-> TRUE, items |-> items, complete |-> TRUE]

\* json.load succeeds
Parses(f) == f.exists /\ f.complete

\* one more chunk of json.dump(items) written to file f
DumpChunk(f, items) ==
    IF Len(f.items) < Len(items)
    THEN [f EXCEPT !.items = Append(f.items, items[Len(f.items) + 1])]
    ELSE [f EXCEPT !.complete = TRUE]

Ids(items) == {items[i].id : i \in 1..Len(items)}

SeqsUpTo(S, n) == UNION {[1..k -> S] : k \in 0..n}

(***************************************************************************)
(* studynavigator.py: JsonStore                                            *)
(***************************************************************************)
StoreIds == {"n1", "n2"}
StoreItems == [id : StoreIds, v : {"x", "y"}]

\* what `last` records of a JsonStore call
StoreCall(op, arg, old, new, raised, ret, at) ==
    [op |-> op, arg |-> arg, old |-> old, new |-> new, raised |-> raised, ret |-> ret, at |-> at]

\* a variant of _save that opens the primary file itself for writing
_save_in_place == "primary"

\* self.file_path.with_suffix(".tmp")
_save_tmp == "tmp"

\* the loop of upsert over items[i..], and the append after it
RECURSIVE UpsertFrom(_, _, _)
UpsertFrom(items, item, i) ==
    IF i > Len(items) THEN Append(items, item)
    ELSE IF items[i].id = item.id THEN [items EXCEPT ![i] = item]
    ELSE UpsertFrom(items, item, i + 1)

\* a variant of upsert that replaces every record with the id, not the first
UpsertedAll(items, item) ==
    IF item.id \in Ids(items)
    THEN [i \in 1..Len(items) |-> IF items[i].id = item.id THEN item ELSE items[i]]
    ELSE Append(items, item)

Upserted(items, item) == UpsertFrom(items, item, 1)

\* JsonStore.get on the loaded items: the first record with the id, or None
GetFrom(items, item_id) ==
    IF item_id \in Ids(items)
    THEN <<items[CHOOSE i \in 1..Len(items) :
                     items[i].id = item_id /\ \A j \in 1..(i - 1) : items[j].id # item_id]>>
    ELSE <<>>

\* __init__ -> _ensure_file: the file is there already, or open(file_path, "w")
EnsureFile ==
    /\ program = "store" /\ pc = "start"
    /\ IF fs["primary"].exists
       THEN pc' = "idle" /\ UNCHANGED fs
       ELSE pc' = "ensure_dump" /\ fs' = [fs EXCEPT !["primary"] = Truncated]
    /\ last' = StoreCall("_ensure_file", <<>>, fs["primary"], <<>>, "", <<>>, pc)
    /\ UNCHANGED <<program, now, input, pending, mdVars>>

\* _ensure_file: json.dump({"items": []}, f)
EnsureDump ==
    /\ program = "store" /\ pc = "ensure_dump"
    /\ fs' = [fs EXCEPT !["primary"] = Document(<<>>)]
    /\ pc' = "idle"
    /\ UNCHANGED <<program, now, last, input, pending, mdVars>>

list_items ==
    /\ program = "store" /\ pc = "idle"
    /\ last' = IF Parses(fs["primary"])
               THEN StoreCall("list_items", <<>>, fs["primary"], <<>>, "", fs["primary"].items, pc)
               ELSE StoreCall("list_items", <<>>, fs["primary"], <<>>, "JSONDecodeError", <<>>, pc)
    /\ UNCHANGED <<program, now, input, jsonVars, mdVars>>

get(item_id) ==
    /\ program = "store" /\ pc = "idle"
    /\ last' = IF Parses(fs["primary"])
               THEN StoreCall("get", item_id, fs["primary"], <<>>, "",
                              GetFrom(fs["primary"].items, item_id), pc)
               ELSE StoreCall("get", item_id, fs["primary"], <<>>, "JSONDecodeError", <<>>, pc)
    /\ UNCHANGED <<program, now, input, jsonVars, mdVars>>

Get == \E item_id \in StoreIds : get(item_id)

\* upsert up to its call of _save
upsert(item) ==
    /\ program = "store" /\ pc = "idle"
    /\ IF Parses(fs["primary"])
       THEN /\ Len(Upserted(fs["primary"].items, item)) <= MaxItems
            /\ pending' = Upserted(fs["primary"].items, item)
            /\ pc' = "save_open"
            /\ last' = StoreCall("upsert", item, fs["primary"], pending', "", <<>>, pc)
       ELSE /\ last' = StoreCall("upsert", item, fs["primary"], <<>>, "JSONDecodeError", <<>>, pc)
            /\ UNCHANGED <<pc, pending>>
    /\ UNCHANGED <<program, now, input, fs, mdVars>>

Upsert == \E item \in StoreItems : upsert(item)

\* replace_all up to its call of _save
replace_all(items) ==
    /\ program = "store" /\ pc = "idle"
    /\ pending' = items
    /\ pc' = "save_open"
    /\ last' = StoreCall("replace_all", items, fs["primary"], items, "", <<>>, pc)
    /\ UNCHANGED <<program, now, input, fs, mdVars>>

ReplaceAll == \E items \in SeqsUpTo(StoreItems, MaxItems) : replace_all(items)

\* _save: with open(tmp, "w")
SaveOpen ==
    /\ program = "store" /\ pc = "save_open"
    /\ fs' = [fs EXCEPT ![_save_tmp] = Truncated]
    /\ pc' = "save_dump"
    /\ last' = [last EXCEPT !.at = pc']
    /\ UNCHANGED <<program, now, input, pending, mdVars>>

\* _save: json.dump(data, f, indent=2), chunk by chunk, then the file is closed
SaveDump ==
    /\ program = "store" /\ pc = "save_dump"
    /\ fs' = [fs EXCEPT ![_save_tmp] = DumpChunk(fs[_save_tmp], pending)]
    /\ pc' = IF fs'[_save_tmp].complete THEN "save_replace" ELSE "save_dump"
    /\ last' = [last EXCEPT !.at = pc']
    /\ UNCHANGED <<program, now, input, pending, mdVars>>

\* _save: tmp.replace(self.file_path), and the call returns
SaveReplace ==
    /\ program = "store" /\ pc = "save_replace"
    /\ fs' = IF _save_tmp = "primary" THEN fs
             ELSE [fs EXCEPT !["primary"] = fs[_save_tmp], ![_save_tmp] = Absent]
    /\ pc' = "idle"
    /\ pending' = <<>>
    /\ last' = [last EXCEPT !.at = "returned"]
    /\ UNCHANGED <<program, now, input, mdVars>>

InSave(p) == p \in {"save_open", "save_dump", "save_replace"}

\* the process dies where it stands; the next run starts at the module's top
Crash ==
    /\ program = "store" /\ pc \in {"ensure_dump", "save_open", "save_dump", "save_replace"}
    /\ pc' = "start"
    /\ pending' = <<>>
    /\ last' = StoreCall("crash", <<>>, IF InSave(pc) THEN last.old ELSE fs["primary"],
                         IF InSave(pc) THEN last.new ELSE <<>>, "", <<>>, pc)
    /\ UNCHANGED <<program, now, input, fs, mdVars>>

\* the process ends after a call and the program is run again
Restart ==
    /\ program = "store" /\ pc = "idle" /\ last.op # "restart"
    /\ pc' = "start"
    /\ last' = StoreCall("restart", <<>>, fs["primary"], <<>>, "", <<>>, pc)
    /\ UNCHANGED <<program, now, input, fs, pending, mdVars>>

InitStore ==
    /\ program = "store"
    /\ last = NoOp
    /\ input = NoOp
    /\ fs = [primary |-> Absent, tmp |-> Absent]
    /\ pc = "start"
    /\ pending = <<>>
    /\ NoMd
    /\ now = 0

NextStore ==
    \/ EnsureFile \/ EnsureDump \/ list_items \/ Get \/ Upsert \/ ReplaceAll
    \/ SaveOpen \/ SaveDump \/ SaveReplace \/ Crash \/ Restart

SpecStore == InitStore /\ [][NextStore]_vars

(***************************************************************************)
(* tasks.py: a JSON list in TASKS_FILE, rewritten in place                 *)
(***************************************************************************)
TaskTitle == <<"a">>

\* load_tasks(): [] when the file is missing or json.load raises JSONDecodeError
load_tasks(f) == IF ~f.exists THEN <<>> ELSE IF Parses(f) THEN f.items ELSE <<>>

generate_id(tasks) == IF tasks = <<>> THEN 1 ELSE Max(Ids(tasks)) + 1

\* the list complete_task saves: the first task with the id completed
Completed(tasks, task_id) ==
    LET k == CHOOSE i \in 1..Len(tasks) :
                 tasks[i].id = task_id /\ \A j \in 1..(i - 1) : tasks[j].id # task_id
    IN  [tasks EXCEPT ![k].completed = TRUE]

\* add_task up to its call of save_tasks
add_task ==
    /\ program = "tasks" /\ pc = "idle"
    /\ LET tasks == load_tasks(fs["primary"])
           new_task == [id |-> generate_id(tasks), title |-> TaskTitle, completed |-> FALSE]
       IN  /\ Len(tasks) < MaxItems
           /\ pending' = Append(tasks, new_task)
           /\ last' = StoreCall("add_task", <<>>, fs["primary"], pending', "", tasks, pc)
    /\ pc' = "save_open"
    /\ UNCHANGED <<program, now, input, fs, mdVars>>

\* complete_task up to its call of save_tasks, or to its end when it saves nothing
complete_task(task_id) ==
    /\ program = "tasks" /\ pc = "idle"
    /\ LET tasks == load_tasks(fs["primary"])
       IN  IF task_id \notin Ids(tasks)
           THEN /\ last' = StoreCall("complete_task", task_id, fs["primary"], <<>>, "", "not found", pc)
                /\ UNCHANGED <<pc, pending>>
           ELSE IF GetFrom(tasks, task_id)[1].completed
           THEN /\ last' = StoreCall("complete_task", task_id, fs["primary"], <<>>, "",
                                     "already completed", pc)
                /\ UNCHANGED <<pc, pending>>
           ELSE /\ pending' = Completed(tasks, task_id)
                /\ pc' = "save_open"
                /\ last' = StoreCall("complete_task", task_id, fs["primary"], pending', "",
                                     "marked", pc)
    /\ UNCHANGED <<program, now, input, fs, mdVars>>

CompleteTask == \E task_id \in 1..(MaxItems + 1) : complete_task(task_id)

\* save_tasks: with open(TASKS_FILE, 'w')
TasksOpen ==
    /\ program = "tasks" /\ pc = "save_open"
    /\ fs' = [fs EXCEPT !["primary"] = Truncated]
    /\ pc' = "save_dump"
    /\ last' = [last EXCEPT !.at = pc']
    /\ UNCHANGED <<program, now, input, pending, mdVars>>

\* save_tasks: json.dump(tasks, f, ...), chunk by chunk, then the call returns
TasksDump ==
    /\ program = "tasks" /\ pc = "save_dump"
    /\ fs' = [fs EXCEPT !["primary"] = DumpChunk(fs["primary"], pending)]
    /\ pc' = IF fs'["primary"].complete THEN "idle" ELSE "save_dump"
    /\ pending' = IF fs'["primary"].complete THEN <<>> ELSE pending
    /\ last' = [last EXCEPT !.at = IF pc' = "idle" THEN "returned" ELSE pc']
    /\ UNCHANGED <<program, now, input, mdVars>>

\* the process dies inside save_tasks; the next command starts afresh
TasksCrash ==
    /\ program = "tasks" /\ pc \in {"save_open", "save_dump"}
    /\ pc' = "idle"
    /\ pending' = <<>>
    /\ last' = StoreCall("crash", <<>>, last.old, last.new, "", <<>>, pc)
    /\ UNCHANGED <<program, now, input, fs, mdVars>>

InitTasks ==
    /\ program = "tasks"
    /\ last = NoOp
    /\ input = NoOp
    /\ fs = [primary |-> Absent]
    /\ pc = "idle"
    /\ pending = <<>>
    /\ NoMd
    /\ now = 0

NextTasks == add_task \/ CompleteTask \/ TasksOpen \/ TasksDump \/ TasksCrash

SpecTasks == InitTasks /\ [][NextTasks]_vars

(***************************************************************************)
(* studynavigator.py: the note and task commands.  Each command is one     *)
(* step: it runs to its end on the store (C1 is about the steps inside     *)
(* _save), and the clock reads of one command fall in one second.  The     *)
(* note commands touch notes.json only and the task commands tasks.json    *)
(* only, so a behaviour works on one of the two collections.  The clock    *)
(* never runs backwards.                                                   *)
(***************************************************************************)
Shorts == { <<"a">>, <<"b">> }               \* uuid.uuid4().hex[:6]
NoteTitle == <<"a">>
NoteBody == <<"b">>
AppendTexts == { <<>>, <<"c">> }
DueDates == { <<"2", "0", "2", "5", "-", "1", "0", "-", "2", "0">>,
              <<"2", "0", "2", "5", "-", "1", "1", "-", "0", "3">> }
Sentinel == <<"9", "9", "9", "9", "-", "9", "9", "-", "9", "9">>
Priorities == {1, 2}                         \* --prio, within min=1 .. max=5
DefaultPrio == 3                             \* --prio left out
LinkedNote == <<"n", "_", "0", "_", "a">>    \* a note id given with --note
StrTodo == <<"t", "o", "d", "o">>
StrDoing == <<"d", "o", "i", "n", "g">>
StrDone == <<"d", "o", "n", "e">>

\* new_id(prefix): f"{prefix}_{ts}_{short}"
new_id(prefix, ts, short) == <<prefix, "_">> \o ToStr(ts) \o <<"_">> \o short

\* Note(id=..., title=..., body=..., tags=...) with the default timestamps
NewNote(id, title, body, t) ==
    [id |-> id, title |-> title, body |-> body, tags |-> <<>>, created_at |-> t, updated_at |-> t]

\* Task(id=..., title=..., priority=..., due_date=..., note_id=...) with the defaults
NewTask(id, title, prio, due, note, t) ==
    [id |-> id, title |-> title, status |-> StrTodo, priority |-> prio, due_date |-> due,
     note_id |-> note, created_at |-> t, updated_at |-> t]

\* a variant of note_append that builds the note anew, timestamps included
AppendedAnew(n, text, t) ==
    NewNote(n.id, n.title, Strip(n.body \o <<"\n", "\n">> \o text, Whitespace), t)

\* note_append: the note with the text appended and updated_at refreshed
Appended(n, text, t) ==
    [n EXCEPT !.body = Strip(n.body \o <<"\n", "\n">> \o text, Whitespace), !.updated_at = t]

\* task_done: the task with status done and updated_at refreshed
Done(t, time) == [t EXCEPT !.status = StrDone, !.updated_at = time]

NavCall(op, arg, found, ret) == [op |-> op, arg |-> arg, found |-> found, ret |-> ret]

\* _save, whole: the new collection replaces the file
Saved(file, items) == [fs EXCEPT ![file] = Document(items)]

note_add ==
    /\ program = "notes"
    /\ \E short \in Shorts :
         LET n == NewNote(new_id("n", now, short), NoteTitle, NoteBody, now)
             items == Upserted(fs["notes"].items, n)
         IN  /\ Len(items) <= MaxItems
             /\ fs' = Saved("notes", items)
             /\ last' = NavCall("note_add", n.id, TRUE, <<>>)
    /\ UNCHANGED <<program, now, input, pc, pending, mdVars>>

note_append ==
    /\ program \in {"notes", "append"}
    /\ \E ts \in 0..MaxTime, short \in Shorts, text \in AppendTexts :
         LET note_id == new_id("n", ts, short)
             d == GetFrom(fs["notes"].items, note_id)
         IN  IF d = <<>>
             THEN /\ last' = NavCall("note_append", note_id, FALSE, "Exit(1)")
                  /\ UNCHANGED fs
             ELSE /\ Len(Appended(d[1], text, now).body) <= MaxBody
                  /\ fs' = Saved("notes", Upserted(fs["notes"].items, Appended(d[1], text, now)))
                  /\ last' = [op |-> "note_append", arg |-> note_id, found |-> TRUE,
                               ret |-> <<>>, text |-> text]
    /\ UNCHANGED <<program, now, input, pc, pending, mdVars>>

task_add ==
    /\ program = "navtasks"
    /\ \E short \in Shorts :
         LET t == NewTask(new_id("t", now, short), NoteTitle, DefaultPrio, None, None, now)
             items == Upserted(fs["tasks"].items, t)
         IN  /\ Len(items) <= MaxItems
             /\ fs' = Saved("tasks", items)
             /\ last' = NavCall("task_add", t.id, TRUE, <<>>)
    /\ UNCHANGED <<program, now, input, pc, pending, mdVars>>

task_done ==
    /\ program = "navtasks"
    /\ \E ts \in 0..MaxTime, short \in Shorts :
         LET task_id == new_id("t", ts, short)
             d == GetFrom(fs["tasks"].items, task_id)
         IN  IF d = <<>>
             THEN /\ last' = NavCall("task_done", task_id, FALSE, "Exit(1)")
                  /\ UNCHANGED fs
             ELSE /\ fs' = Saved("tasks", Upserted(fs["tasks"].items, Done(d[1], now)))
                  /\ last' = NavCall("task_done", task_id, TRUE, <<>>)
    /\ UNCHANGED <<program, now, input, pc, pending, mdVars>>

\* a <= b for str
StrLessEq(a, b) == a = b \/ StrLess(a, b)

\* order.get(t.status, 9)
Rank(status) ==
    CASE status = StrTodo -> 0
      [] status = StrDoing -> 1
      [] status = StrDone -> 2
      [] OTHER -> 9

\* a variant of the sort key without the far-future date for a task with no due date
SortKeyNoSentinel(t) ==
    <<Rank(t.status), IF t.due_date = None THEN <<>> ELSE t.due_date, t.priority>>

\* the key of items.sort: (order.get(t.status, 9), t.due_date or "9999-99-99", t.priority)
SortKey(t) ==
    <<Rank(t.status),
      IF t.due_date = None \/ t.due_date = <<>> THEN Sentinel ELSE t.due_date,
      t.priority>>

\* a < b for the key tuples
KeyLess(a, b) ==
    \/ a[1] < b[1]
    \/ a[1] = b[1] /\ StrLess(a[2], b[2])
    \/ a[1] = b[1] /\ a[2] = b[2] /\ a[3] < b[3]

\* list.sort is stable: x goes behind every element that is not greater
RECURSIVE InsertStable(_, _)
InsertStable(s, x) ==
    IF s = <<>> THEN <<x>>
    ELSE IF KeyLess(SortKey(x), SortKey(Head(s))) THEN <<x>> \o s
    ELSE <<Head(s)>> \o InsertStable(Tail(s), x)

RECURSIVE StableSort(_)
StableSort(s) ==
    IF s = <<>> THEN <<>>
    ELSE InsertStable(StableSort(SubSeq(s, 1, Len(s) - 1)), s[Len(s)])

Truthy(x) == x # None /\ x # <<>>

Select(s, P(_)) == SelectSeq(s, P)

\* the three filters of task_list, in the order the code applies them
Filtered(items, status, note, due_before) ==
    LET ByStatus(t) == Truthy(status) => t.status = status
        ByNote(t) == Truthy(note) => t.note_id = note
        ByDue(t) == Truthy(due_before) => (Truthy(t.due_date) /\ StrLessEq(t.due_date, due_before))
    IN  Select(Select(Select(items, ByStatus), ByNote), ByDue)

\* the tasks task_list renders
TaskListed(items, status, note, due_before) == StableSort(Filtered(items, status, note, due_before))

task_list ==
    /\ program = "sort"
    /\ \E status \in {None, StrTodo}, note \in {None, LinkedNote},
          due_before \in {None, <<"2", "0", "2", "5", "-", "1", "0", "-", "2", "0">>} :
         last' = [op |-> "task_list", status |-> status, note |-> note, due_before |-> due_before,
                  ret |-> TaskListed(fs["tasks"].items, status, note, due_before)]
    /\ UNCHANGED <<program, now, input, jsonVars, mdVars>>

\* a second passes
Tick ==
    /\ program \in {"notes", "navtasks", "append"}
    /\ now < MaxTime
    /\ now' = now + 1
    /\ last' = NavCall("tick", <<>>, TRUE, <<>>)
    /\ UNCHANGED <<program, input, jsonVars, mdVars>>

InitNav ==
    /\ program \in {"notes", "navtasks"}
    /\ last = NoOp
    /\ input = NoOp
    /\ fs = [notes |-> Document(<<>>), tasks |-> Document(<<>>)]
    /\ pc = "idle"
    /\ pending = <<>>
    /\ now = 0
    /\ NoMd

NextNav == note_add \/ note_append \/ task_add \/ task_done \/ Tick

SpecNav == InitNav /\ [][NextNav]_vars

(***************************************************************************)
(* task_list applied to a stored collection of tasks.                      *)
(***************************************************************************)
SortShapes == [status : {StrTodo, StrDoing, StrDone}, due_date : DueDates \cup {None},
               priority : Priorities, note_id : {None, LinkedNote}]

\* the task at place i of the collection
ShapedTask(shape, i) ==
    [id |-> new_id("t", 0, ToStr(i)), title |-> NoteTitle, status |-> shape.status,
     priority |-> shape.priority, due_date |-> shape.due_date, note_id |-> shape.note_id,
     created_at |-> 0, updated_at |-> 0]

InitSort ==
    /\ program = "sort"
    /\ last = NoOp
    /\ input = NoOp
    /\ \E shapes \in SeqsUpTo(SortShapes, MaxSort) :
         fs = [notes |-> Document(<<>>),
               tasks |-> Document([i \in 1..Len(shapes) |-> ShapedTask(shapes[i], i)])]
    /\ pc = "idle"
    /\ pending = <<>>
    /\ now = 0
    /\ NoMd

NextSort == task_list

SpecSort == InitSort /\ [][NextSort]_vars

(***************************************************************************)
(* note_append applied to a stored note.                                   *)
(***************************************************************************)
StoredBodies == { <<>>, <<"b">> }            \* --body left out, or given

InitAppend ==
    /\ program = "append"
    /\ last = NoOp
    /\ input = NoOp
    /\ \E body \in StoredBodies :
         fs = [notes |-> Document(<<NewNote(new_id("n", 0, <<"a">>), NoteTitle, body, 0)>>),
               tasks |-> Document(<<>>)]
    /\ pc = "idle"
    /\ pending = <<>>
    /\ now = 0
    /\ NoMd

NextAppend == note_append \/ Tick

SpecAppend == InitAppend /\ [][NextAppend]_vars

(***************************************************************************)
(* The three searches, each applied to a stored collection: search of      *)
(* studynavigator.py, search_tasks of storage_markdown.py and search_tasks *)
(* of tasks.py.                                                            *)
(***************************************************************************)
SearchTexts == { <<"a">>, <<"A", "b">>, <<"B">> }
Queries == { <<>>, <<"b">>, <<"A">>, <<"a", "B">> }
NoteShapes == [title : SearchTexts, body : SearchTexts]
TaskShapes == [title : SearchTexts, description : SearchTexts]

\* the list comprehensions of search
MatchedNotes(notes, query) ==
    LET query_lower == Lower(query)
        Hit(n) == Contains(Lower(n.title), query_lower) \/ Contains(Lower(n.body), query_lower)
    IN  SelectSeq(notes, Hit)

MatchedTasks(tasks, query) ==
    LET query_lower == Lower(query)
        Hit(t) == Contains(Lower(t.title), query_lower)
    IN  SelectSeq(tasks, Hit)

\* the list comprehension of both search_tasks
MatchingTasks(tasks, keyword) ==
    LET keyword_lower == Lower(keyword)
        Hit(task) == \/ Contains(Lower(task.title), keyword_lower)
                     \/ Contains(Lower(task.description), keyword_lower)
    IN  SelectSeq(tasks, Hit)

search ==
    /\ program = "navsearch"
    /\ \E query \in Queries :
         last' = [op |-> "search", query |-> query, raised |-> "",
                  notes |-> MatchedNotes(fs["notes"].items, query),
                  tasks |-> MatchedTasks(fs["tasks"].items, query)]
    /\ UNCHANGED <<program, now, input, jsonVars, mdVars>>

\* storage_markdown.search_tasks
search_tasks ==
    /\ program = "mdsearch"
    /\ \E keyword \in Queries :
         LET all_tasks == ListTasksResult(vault)
         IN  last' = [op |-> "search_tasks", query |-> keyword, raised |-> all_tasks.raised,
                      notes |-> <<>>,
                      tasks |-> IF all_tasks.raised = "" THEN MatchingTasks(all_tasks.tasks, keyword)
                                ELSE <<>>]
    /\ UNCHANGED <<program, now, input, jsonVars, mdVars>>

\* tasks.search_tasks
tasks_search_tasks ==
    /\ program = "tasksearch"
    /\ \E keyword \in Queries :
         last' = [op |-> "tasks_search_tasks", query |-> keyword, raised |-> "",
                  notes |-> <<>>,
                  tasks |-> MatchingTasks(load_tasks(fs["primary"]), keyword)]
    /\ UNCHANGED <<program, now, input, jsonVars, mdVars>>

\* the vault after save_task(title, description) for each shape in turn
RECURSIVE VaultOf(_)
VaultOf(shapes) ==
    IF shapes = <<>> THEN <<>>
    ELSE LET k == Len(shapes)
             sh == shapes[k]
         IN  WriteFile(VaultOf(SubSeq(shapes, 1, k - 1)), FileName(k, sh.title),
                       FileLines(k, sh.title, sh.description, FALSE, NowText))

InitNavSearch ==
    /\ program = "navsearch"
    /\ \E notes \in SeqsUpTo(NoteShapes, MaxSearch), titles \in SeqsUpTo(SearchTexts, MaxSearch) :
         fs = [notes |-> Document([i \in 1..Len(notes) |->
                          NewNote(new_id("n", 0, ToStr(i)), notes[i].title, notes[i].body, 0)]),
               tasks |-> Document([i \in 1..Len(titles) |->
                          NewTask(new_id("t", 0, ToStr(i)), titles[i], DefaultPrio, None, None, 0)])]
    /\ pc = "idle" /\ pending = <<>> /\ now = 0
    /\ NoMd

InitMdSearch ==
    /\ program = "mdsearch"
    /\ \E shapes \in SeqsUpTo(TaskShapes, MaxSearch) : vault = VaultOf(shapes)
    /\ seenIds = FileIds(vault)
    /\ NoJson

InitTaskSearch ==
    /\ program = "tasksearch"
    /\ \E shapes \in SeqsUpTo(TaskShapes, MaxSearch) :
         fs = [primary |-> Document([i \in 1..Len(shapes) |->
                 [id |-> i, title |-> shapes[i].title, description |-> shapes[i].description,
                  completed |-> FALSE]])]
    /\ pc = "idle" /\ pending = <<>> /\ now = 0
    /\ NoMd

InitSearch ==
    /\ last = NoOp
    /\ input = NoOp
    /\ InitNavSearch \/ InitMdSearch \/ InitTaskSearch

NextSearch == search \/ search_tasks \/ tasks_search_tasks

SpecSearch == InitSearch /\ [][NextSearch]_vars

(***************************************************************************)
(* The three stores side by side: a behaviour runs one of them.            *)
(***************************************************************************)
InitAll == InitMd \/ InitStore \/ InitTasks

NextAll == NextMd \/ NextStore \/ NextTasks

SpecAll == InitAll /\ [][NextAll]_vars

(***************************************************************************)
(* Claims about storage_markdown.py                                        *)
(***************************************************************************)
IsAutoSave(l) == l.op = "save_task" /\ l.auto

\* C2: while no id has left the vault (no deletions), an id that save_task
\* generates differs from every id generated before and from every id the vault
\* holds, and is one more than the largest id in the file names (1 when there
\* is none).
C2_GeneratedIdsDistinct ==
    [][(IsAutoSave(last') /\ seenIds = FileIds(vault))
         => /\ last'.ret \notin seenIds
            /\ last'.ret \notin FileIds(vault)
            /\ \A i \in FileIds(vault) : last'.ret > i
            /\ last'.ret - 1 \in FileIds(vault) \cup {0}]_vars

\* C2 witness: three creations in a row, no deletion, the third id just generated
C2_Witness ==
    /\ program = "md"
    /\ last.op = "save_task" /\ last.auto /\ last.ret = 3
    /\ seenIds = {1, 2, 3}
    /\ FileIds(vault) = {1, 2, 3}

\* C3: an id that save_task generates is never an id still in the vault nor an
\* id that was deleted earlier (ids are never reused).
C3_IdsNeverReused ==
    [][IsAutoSave(last') => last'.ret \notin seenIds]_vars

\* C4: the record list_tasks decodes from a file equals, field for field, the
\* record save_task wrote to it.
C4_RoundTrip ==
    [][(last.op = "save_task" /\ last'.op = "list_tasks")
         => /\ last'.res.raised = ""
            /\ \E i \in 1..Len(last'.res.tasks) : last'.res.tasks[i] = last.rec]_vars

\* C8: list_tasks returns one record for every .md file of the vault, whatever
\* the files hold; no file makes it raise.
C8_ListNeverAborts ==
    last.op = "list_tasks"
      => /\ last.res.raised = ""
         /\ Len(last.res.tasks) = Cardinality({n \in DOMAIN vault : EndsWith(n, ExtMd)})

(***************************************************************************)
(* Claims about the JSON stores                                            *)
(***************************************************************************)
\* C1: from the moment upsert or replace_all calls _save, at every step of
\* _save and after a crash anywhere inside it, the primary file holds the whole
\* old content or the whole new collection; until _save has returned (so also
\* after a crash between the temp-file write and the rename) it is unchanged.
C1_AtomicSave ==
    (/\ program = "store"
     /\ last.op \in {"upsert", "replace_all", "crash"}
     /\ last.raised = ""
     /\ last.op = "crash" => InSave(last.at))
      => /\ fs["primary"] \in {last.old, Document(last.new)}
         /\ last.at # "returned" => fs["primary"] = last.old
         /\ last.at = "returned" => fs["primary"] = Document(last.new)

\* C1 witness: a crash after the temp file was written whole and before the
\* rename, with a new collection that differs from the stored one
C1_Witness ==
    /\ program = "store"
    /\ last.op = "crash" /\ last.at = "save_replace"
    /\ fs["tmp"] = Document(last.new)
    /\ Parses(last.old) /\ Len(last.old.items) >= 1
    /\ last.new # last.old.items
    /\ fs["primary"] = last.old

\* C5: upsert(item) replaces the first stored record whose id equals item's id,
\* in place, and leaves every other record, the length and the order as they
\* were; with no such record it appends item and leaves all records as they
\* were.  A record with another id is never overwritten.
C5_UpsertFrame ==
    (program = "store" /\ last.op = "upsert" /\ last.at = "returned")
      => LET old == last.old.items
             new == fs["primary"].items
             item == last.arg
             hits == {i \in 1..Len(old) : old[i].id = item.id}
         IN  /\ Parses(fs["primary"])
             /\ \A j \in 1..Len(old) : old[j].id # item.id => (j <= Len(new) /\ new[j] = old[j])
             /\ IF hits # {}
                THEN /\ Len(new) = Len(old)
                     /\ \A j \in hits : new[j] = IF \A i \in hits : j <= i THEN item ELSE old[j]
                ELSE /\ Len(new) = Len(old) + 1
                     /\ new[Len(new)] = item

\* C5 witness: two stored records carry the id; the first is replaced, the second stays
C5_Witness ==
    /\ program = "store" /\ last.op = "upsert" /\ last.at = "returned"
    /\ Len(last.old.items) = 2
    /\ last.old.items[1].id = last.arg.id /\ last.old.items[2].id = last.arg.id
    /\ last.old.items[1] # last.arg /\ last.old.items[2] # last.arg
    /\ fs["primary"].items = <<last.arg, last.old.items[2]>>

\* C6: an operation on an id that is not stored ends in a not-found outcome and
\* changes nothing: mark_complete and delete_task return False and leave the
\* vault as it was, JsonStore.get returns None, complete_task writes no file.
C6_AbsentIdNotFound ==
    [][/\ (last'.op \in {"mark_complete", "delete_task"} /\ last'.task_id \notin FileIds(vault))
          => (last'.ret = FALSE /\ vault' = vault)
       /\ (last'.op = "get" /\ last'.arg \notin Ids(load_tasks(fs["primary"])))
          => (last'.raised = "" /\ last'.ret = <<>> /\ fs' = fs)
       /\ (last'.op = "complete_task" /\ last'.at = "idle"
             /\ last'.arg \notin Ids(load_tasks(fs["primary"])))
          => (last'.ret = "not found" /\ fs' = fs /\ pc' = "idle")]_vars

\* C7: when the primary JSON file exists and does not parse, the load gives the
\* empty collection and the operation goes on as on a fresh store, in JsonStore
\* and in tasks.py alike.
C7_CorruptFileLoadsEmpty ==
    (/\ program \in {"store", "tasks"}
     /\ last.op \in {"list_items", "get", "upsert", "add_task", "complete_task"}
     /\ last.old.exists /\ ~Parses(last.old))
      => /\ last.raised = ""
         /\ last.op \in {"list_items", "get", "add_task"} => last.ret = <<>>
         /\ last.op = "upsert" => last.new = <<last.arg>>
         /\ last.op = "add_task" => Len(last.new) = 1
         /\ last.op = "complete_task" => last.ret = "not found"

(***************************************************************************)
(* Claims about the studynavigator commands                                *)
(***************************************************************************)
\* C9: note_append and task_done store the record with updated_at set to the
\* current time and with the id and created_at it had; over every command, a
\* stored record keeps its id and created_at and its updated_at never decreases.
C9_Timestamps ==
    [][/\ \A k \in {"notes", "tasks"} : \A i \in 1..Len(fs[k].items) :
            /\ i <= Len(fs'[k].items)
            /\ fs'[k].items[i].id = fs[k].items[i].id
            /\ fs'[k].items[i].created_at = fs[k].items[i].created_at
            /\ fs'[k].items[i].updated_at >= fs[k].items[i].updated_at
       /\ (last'.op \in {"note_append", "task_done"} /\ last'.found)
            => LET k == IF last'.op = "note_append" THEN "notes" ELSE "tasks"
                   before == GetFrom(fs[k].items, last'.arg)[1]
                   after == GetFrom(fs'[k].items, last'.arg)[1]
               IN  /\ after.updated_at = now
                   /\ after.id = before.id
                   /\ after.created_at = before.created_at
                   /\ Len(fs'[k].items) = Len(fs[k].items)]_vars

\* C9 witness: a note created earlier has just been appended to, a second later or more
C9_Witness ==
    /\ program = "notes" /\ last.op = "note_append" /\ last.found
    /\ LET n == GetFrom(fs["notes"].items, last.arg)[1]
       IN  n.created_at < now /\ n.updated_at = now /\ n.body = <<"b", "\n", "\n", "c">>

\* the rank the claim gives a status
ClaimRank(status) == IF status = StrTodo THEN 0 ELSE IF status = StrDoing THEN 1 ELSE 2

\* task a may stand before task b in the order the claim describes
ClaimOrdered(a, b) ==
    \/ ClaimRank(a.status) < ClaimRank(b.status)
    \/ /\ a.status = b.status
       /\ \/ a.due_date # None /\ b.due_date = None
          \/ a.due_date # None /\ b.due_date # None /\ StrLess(a.due_date, b.due_date)
          \/ a.due_date = b.due_date /\ a.priority <= b.priority

PlaceIn(items, t) == CHOOSE i \in 1..Len(items) : items[i] = t

\* C10: task_list returns exactly the tasks that pass the filters, ordered by
\* status rank, then due date with the undated last, then priority; tasks equal
\* in all three keep the order they have in the stored collection.
C10_TaskListOrder ==
    (program = "sort" /\ last.op = "task_list")
      => LET items == fs["tasks"].items
             out == last.ret
             passes(t) ==
                 /\ last.status # None => t.status = last.status
                 /\ last.note # None => t.note_id = last.note
                 /\ last.due_before # None
                      => (t.due_date # None /\ StrLessEq(t.due_date, last.due_before))
         IN  /\ Range(out) = {items[i] : i \in {j \in 1..Len(items) : passes(items[j])}}
             /\ Len(out) = Cardinality(Range(out))
             /\ \A i \in 1..Len(out) : \A j \in (i + 1)..Len(out) :
                  /\ ClaimOrdered(out[i], out[j])
                  /\ (/\ out[i].status = out[j].status
                      /\ out[i].due_date = out[j].due_date
                      /\ out[i].priority = out[j].priority)
                       => PlaceIn(items, out[i]) < PlaceIn(items, out[j])

\* C10 witness: of two stored tasks with one status, the undated one stored
\* first, the listing puts the dated one first
C10_Witness ==
    /\ program = "sort" /\ last.op = "task_list"
    /\ Len(last.ret) = 2 /\ Len(fs["tasks"].items) = 2
    /\ last.ret[1] = fs["tasks"].items[2]
    /\ last.ret[2] = fs["tasks"].items[1]
    /\ last.ret[1].status = last.ret[2].status
    /\ last.ret[1].due_date # None /\ last.ret[2].due_date = None

(***************************************************************************)
(* Claims about the searches                                               *)
(***************************************************************************)
\* the query occurs in the text, letter case aside
Occurs(query, text) ==
    \E i \in 1..(Len(text) - Len(query) + 1) :
        \A k \in 1..Len(query) : LowerChar(text[i + k - 1]) = LowerChar(query[k])

\* the records a search was run on
Searched ==
    CASE program = "navsearch" -> fs["tasks"].items
      [] program = "mdsearch" -> ListTasksResult(vault).tasks
      [] program = "tasksearch" -> fs["primary"].items

\* C11: every search returns a note exactly when the query occurs, letter case
\* aside, in its title or its body, and a task exactly when the query occurs in
\* its title; notes and tasks come back as two sequences in stored order.
C11_SearchFields ==
    (last.op \in {"search", "search_tasks", "tasks_search_tasks"} /\ last.raised = "")
      => LET InTitle(t) == Occurs(last.query, t.title)
             InTitleOrBody(n) == Occurs(last.query, n.title) \/ Occurs(last.query, n.body)
         IN  /\ last.tasks = SelectSeq(Searched, InTitle)
             /\ program = "navsearch" => last.notes = SelectSeq(fs["notes"].items, InTitleOrBody)

\* C11 on search of studynavigator.py alone, where it holds
C11_NavSearchFields ==
    program = "navsearch" => C11_SearchFields

(***************************************************************************)
(* Claims about note_append                                                *)
(***************************************************************************)
\* C12: after note_append(id, text) on an existing note with body b the stored
\* body is b, a blank line, then text (b + "\n\n" + text), and the note's
\* updated_at is later than it was before the append.
C12_AppendBody ==
    [][(last'.op = "note_append" /\ last'.found)
         => LET before == GetFrom(fs["notes"].items, last'.arg)[1]
                after == GetFrom(fs'["notes"].items, last'.arg)[1]
            IN  /\ after.body = before.body \o <<"\n", "\n">> \o last'.text
                /\ after.updated_at > before.updated_at]_vars

\* C12, the body alone
C12_BodyJoined ==
    [][(last'.op = "note_append" /\ last'.found)
         => LET before == GetFrom(fs["notes"].items, last'.arg)[1]
                after == GetFrom(fs'["notes"].items, last'.arg)[1]
            IN  after.body = before.body \o <<"\n", "\n">> \o last'.text]_vars

\* C12, the timestamp alone
C12_UpdatedLater ==
    [][(last'.op = "note_append" /\ last'.found)
         => LET before == GetFrom(fs["notes"].items, last'.arg)[1]
                after == GetFrom(fs'["notes"].items, last'.arg)[1]
            IN  after.updated_at > before.updated_at]_vars

(***************************************************************************)
(* Claims about the file names of the markdown vault                       *)
(***************************************************************************)
\* C13: mark_complete(id) and delete_task(id) leave every file whose file-name
\* id is another id present and unchanged, also when the two ids share leading
\* digits (1 and 10), whichever matching file the directory listing gives first.
C13_OtherIdsUntouched ==
    [][(last'.op \in {"mark_complete", "delete_task"})
         => \A n \in DOMAIN vault :
              FileIds(WriteFile(<<>>, n, vault[n])) # {last'.task_id}
                => (n \in DOMAIN vault' /\ vault'[n] = vault[n])]_vars

\* C13 witness: task 1 has just been marked complete in a vault that also holds task 10
C13_Witness ==
    /\ program = "md" /\ last.op = "mark_complete" /\ last.task_id = 1 /\ last.ret
    /\ {1, 10} \subseteq FileIds(vault)

\* the ids of the records list_tasks returns for a vault
ListedIds(dir) == {ListTasksResult(dir).tasks[i].id : i \in 1..Len(ListTasksResult(dir).tasks)}

\* C14: after any sequence of save_task (id generated or given, any title),
\* mark_complete and delete_task, list_tasks returns no two records with one id,
\* and once delete_task(id) has returned True no record with that id is listed.
C14_OneFilePerId ==
    [][/\ last'.op = "list_tasks"
            => \A i, j \in 1..Len(last'.res.tasks) :
                 last'.res.tasks[i].id = last'.res.tasks[j].id => i = j
       /\ (last'.op = "delete_task" /\ last'.ret)
            => last'.task_id \notin ListedIds(vault')]_vars

\* C14, the listing alone
C14_ListedIdsDistinct ==
    [][last'.op = "list_tasks"
         => \A i, j \in 1..Len(last'.res.tasks) :
              last'.res.tasks[i].id = last'.res.tasks[j].id => i = j]_vars

\* C14, the deletion alone
C14_DeletedIdGone ==
    [][(last'.op = "delete_task" /\ last'.ret) => last'.task_id \notin ListedIds(vault')]_vars

====
